---- MODULE Spec2Model ----
(***************************************************************************)
(* Session / state-synchronisation layer of the eunoia-ai web client.      *)
(*                                                                         *)
(* Two specifications share this module:                                   *)
(*   Spec          the chat/channel component (AppWrapper of               *)
(*                 app-wrapper.tsx, its earlier builds EunoiaAI of         *)
(*                 page.tsx and ChatContainer of part_006) together with   *)
(*                 the WorkspaceContainer socket of part_008;              *)
(*   SpecRegistry  the AgentProvider session registry of part_004.         *)
(* Each specification leaves the other's variables unchanged.              *)
(*                                                                         *)
(* The socket.io client is the environment.  Its behaviour is fixed by the *)
(* options the code passes to io(): reconnection is on and the library     *)
(* retries a failed open up to reconnectionAttempts times, emitting        *)
(* connect_error for every failed open; a manual disconnect() closes the   *)
(* socket and emits 'disconnect' if it was connected; connect() on a       *)
(* closed socket opens it again; listeners stay attached to a socket       *)
(* object for its whole life.                                              *)
(***************************************************************************)
EXTENDS Integers, Sequences, FiniteSets, TLC

\* ---- bounds ----------------------------------------------------------
MaxBindings == 3        \* runs of the sessionId effect (Spec, SpecWorkspace)
MaxChannelBindings == 2 \* runs of the sessionId effect (SpecChannel)
MaxTimers == 4          \* reconnect timers pending at one time
MaxAttemptsSeen == 6    \* cap on the reconnectAttempts counter
MaxSends == 2           \* user messages accepted in one run
MaxTranscript == 4      \* transcript length up to which the server pushes replies

MaxCreated == 1         \* uuidv4() ids generated in one run (SpecRegistry)
MaxDeletes == 2         \* deleteSession calls in one run (SpecRegistry)
MaxClock == 1           \* seconds that pass in one run (SpecRename)
MaxEdits == 1           \* SequenceEditor edits in one run
MaxSteps == 3           \* steps up to which addStep is explored
MaxSaves == 1           \* save requests transmitted in one run
MaxEditorBindings == 1  \* runs of the sessionId effect (SpecEditor)
MaxPushes == 2          \* sequence_update events delivered in one run
MaxRenames == 1         \* renameSession calls from the sidebar in one run
MaxEvents == 2          \* tool and processing events delivered in one run

\* ---- program constants -----------------------------------------------
maxReconnectAttempts == 5
maxResetAttempts == 3

Sessions == {"A", "B"}
Components == {"AppWrapper", "EunoiaAI", "ChatContainer"}

\* What GET /api/chat/<sid> returns for each session (role, content).
ApiMessages(sid) ==
  IF sid = "A"
  THEN << [role |-> "user", content |-> "A1"],
          [role |-> "tool", content |-> "A2"],
          [role |-> "assistant", content |-> "A3"] >>
  ELSE << [role |-> "system", content |-> "B1"] >>

VARIABLES
  component,          \* which build of the chat component is mounted
  bindings,           \* number of times the sessionId effect has run
  sessionId,          \* active session id handed down by the context ("" = none)
  sockets,            \* every Socket object created so far
  socketRef,          \* socketRef.current of the chat component (0 = null)
  wsSocketRef,        \* socketRef.current of WorkspaceContainer (0 = null)
  timers,             \* timers[i]: pending reconnect timeouts whose callback holds socket i
  reconnectTimer,     \* reconnectTimer.current: 0 = null or already fired, else the
                      \* socket of the pending timeout it refers to (the newest one)
  connectionStatus,
  connectionError,
  reconnectAttempts,  \* reconnectAttempts.current
  messages,           \* the transcript
  isGenerating,       \* isGenerating (isLoading in ChatContainer)
  histFetches,        \* fetchChatHistory calls awaiting their response
  sent,               \* per accepted user message: the delivery paths used
  wsError,            \* WorkspaceContainer error banner
  \* ---- AgentProvider (session registry) ----
  sessions,           \* the session list
  lsSessionId,        \* localStorage 'sessionId' ("" = absent)
  lsSessions,         \* localStorage 'sessions': [present, list]
  boot,               \* position of initializeSession: "fetching" or "done"
  storedSessionId,    \* storedSessionId read by the mount effect
  storedSessions,     \* storedSessions read by initializeSession
  serverSessionsData, \* what GET /api/sessions answered
  finalSessions,      \* finalSessions of initializeSession
  bootOutcome,        \* how the list request ended
  isDeletingSession,
  delPending,         \* the deleteSession calls awaiting their response, each
                      \* with its closure: [sid, sessions, sessionId]
  deleted,            \* completed deleteSession calls: [sid, ok]
  resetChains,        \* attemptSequenceReset chains in flight: [sid, attempts]
  createCalls,        \* POST /api/sessions of createNewSession: [sid, st], st
                      \* "pending", "done" or "failed"
  nextId,             \* number of uuidv4() ids generated so far
  currentSessionName,
  isRenamingSession,
  renamePending,      \* renameSession calls awaiting their response, each with
                      \* its closure: [sid, name, sessionId]
  renamed,            \* completed renameSession calls: [sid, name, ok]
  clock,              \* the wall clock, in the seconds toLocaleString() shows
  \* ---- AppWrapper beside the channel ----
  isFirstUserMessage,
  submits,            \* per message AppWrapper accepted: [sid, text, renamed]
  \* ---- the sequence document (AppWrapper state, edited by its children) ----
  sequenceData,       \* the document: [kind, sid, steps], kind "null" = null
  seqFetches,         \* fetchSequenceData calls awaiting their response
  unsaved,            \* the document carries edits made since it was loaded,
                      \* pushed or saved
  \* ---- SequenceEditor ----
  isSaving,
  saveStatus,         \* "idle", "success" or "error"
  errorMessage,       \* which message is shown ("none" = null)
  savePending,        \* POST /api/sequences/save awaiting its response: [sid, doc]
  saves,              \* number of save requests transmitted so far
  removedIds,         \* ids of the steps removeStep has taken out
  nowMs,              \* Date.now(), counted in user actions since the page loaded
  pushes,             \* number of 'sequence_update' events delivered so far
  cfgFetches,         \* fetchAppConfig calls awaiting their response, told
                      \* apart by what their closure holds: [empty]
  resetCalls,         \* resetSequence calls of WorkspaceContainer: [sid, st],
                      \* st "pending", "success", "failure" or "error"
  wsEmitted,          \* the events WorkspaceContainer has emitted on its
                      \* sockets: [ev, sid]
  \* ---- tool activity ----
  usingTool,          \* usingTool (activeTool in ChatContainer), "none" = null
  events,             \* number of tool and processing events delivered so far
  submitCalls,        \* number of calls of the submit handler so far, the
                      \* ones it returned from at once included
  \* ---- the earlier SequenceEditor ----
  sequence            \* the steps of its local copy of the document

chanVars == << component, bindings, sessionId, sockets, socketRef, wsSocketRef, timers,
               reconnectTimer, connectionStatus, connectionError,
               reconnectAttempts, messages, isGenerating, histFetches, sent,
               wsError >>

\* AppWrapper state that the channel handlers leave alone
editorVars == << isSaving, saveStatus, errorMessage, savePending, saves,
                 removedIds, nowMs, wsEmitted, resetCalls, sequence >>

\* the tool indicator and the count of activity events
activityVars == << usingTool, events, submitCalls >>

docVars == << sequenceData, seqFetches, unsaved, editorVars, pushes, cfgFetches,
             activityVars >>

appVars == << isFirstUserMessage, submits, docVars >>

\* the AgentProvider state around the session names
nameVars == << currentSessionName, isRenamingSession, renamePending, renamed, clock >>

\* what the AgentProvider operations leave alone
chanRest == << component, bindings, sockets, socketRef, wsSocketRef, timers,
               reconnectTimer, connectionStatus, connectionError,
               reconnectAttempts, messages, isGenerating, histFetches, sent,
               wsError, appVars >>

regCore == << sessions, lsSessionId, lsSessions, boot, storedSessionId,
              storedSessions, serverSessionsData, finalSessions, bootOutcome,
              isDeletingSession, delPending, deleted, resetChains, createCalls, nextId >>

\* what the channel handlers leave alone
regVars == << regCore, nameVars, appVars >>

vars == << chanVars, regVars >>

\* ---- helpers ---------------------------------------------------------
RECURSIVE FilterSeq(_, _)
FilterSeq(s, keep) ==
  IF s = << >> THEN << >>
  ELSE IF Head(s).role \in keep
       THEN << Head(s) >> \o FilterSeq(Tail(s), keep)
       ELSE FilterSeq(Tail(s), keep)

\* app-wrapper.tsx 235-240: filter to user/assistant, map to UI messages
UiMessages(api) ==
  LET f == FilterSeq(api, {"user", "assistant"})
  IN [i \in 1..Len(f) |->
        [type |-> IF f[i].role = "user" THEN "user" ELSE "system",
         text |-> f[i].content]]

WelcomeEntry == [type |-> "system", text |-> "welcome"]

Connected(i) == i # 0 /\ sockets[i].st = "open"

\* io(url, options): a new Socket that starts opening at once
NewSocket(owner, sid, cap, empty) ==
  [owner |-> owner, sid |-> sid, st |-> "opening", cap |-> cap, empty |-> empty,
   tries |-> 0]

\* socket.disconnect()
Disconnect(socks, i) ==
  IF i = 0 THEN socks ELSE [socks EXCEPT ![i].st = "closed"]

\* clearTimeout(reconnectTimer.current)
ClearTimeout(tm, ref) ==
  IF ref = 0 THEN tm ELSE [tm EXCEPT ![ref] = tm[ref] - 1]

RECURSIVE SumSeq(_)
SumSeq(q) == IF q = << >> THEN 0 ELSE Head(q) + SumSeq(Tail(q))

\* socket.connect(): opens a socket that is neither open nor opening
Reopen(socks, i) ==
  IF socks[i].st \in {"closed", "gaveup"}
  THEN [socks EXCEPT ![i].st = "opening", ![i].tries = 0]
  ELSE socks

\* the registry part of a state of the channel specifications
RegistryIdle ==
  /\ sessions = << >>
  /\ lsSessionId = ""
  /\ lsSessions = [present |-> FALSE, list |-> << >>]
  /\ boot = "done"
  /\ storedSessionId = ""
  /\ storedSessions = [present |-> FALSE, list |-> << >>]
  /\ serverSessionsData = << >>
  /\ finalSessions = << >>
  /\ bootOutcome = "none"
  /\ isDeletingSession = FALSE
  /\ delPending = {}
  /\ deleted = {}
  /\ resetChains = {}
  /\ createCalls = {}
  /\ nextId = 0

\* the state after construction, the document handed down being data
ChannelInitGiven(data) ==
  /\ component \in Components
  /\ bindings = 0
  /\ sessionId = ""
  /\ sockets = << >>
  /\ socketRef = 0
  /\ wsSocketRef = 0
  /\ timers = << >>
  /\ reconnectTimer = 0
  /\ connectionStatus = "disconnected"
  /\ connectionError = "none"
  /\ reconnectAttempts = 0
  /\ messages = IF component = "EunoiaAI" THEN << WelcomeEntry >> ELSE << >>
  /\ isGenerating = FALSE
  /\ histFetches = {}
  /\ sent = << >>
  /\ wsError = FALSE
  /\ isFirstUserMessage = TRUE
  /\ submits = << >>
  /\ sequenceData = data
  /\ sequence = << >>
  /\ seqFetches = {}
  /\ unsaved = FALSE
  /\ isSaving = FALSE
  /\ saveStatus = "idle"
  /\ errorMessage = "none"
  /\ savePending = {}
  /\ saves = 0
  /\ removedIds = {}
  /\ nowMs = 0
  /\ pushes = 0
  /\ cfgFetches = {}
  /\ wsEmitted = {}
  /\ resetCalls = {}
  /\ usingTool = "none"
  /\ events = 0
  /\ submitCalls = 0
  /\ currentSessionName = ""
  /\ isRenamingSession = FALSE
  /\ renamePending = {}
  /\ renamed = {}
  /\ clock = 0

ChannelInit == ChannelInitGiven([kind |-> "null", sid |-> "", steps |-> << >>])

Init == ChannelInit /\ RegistryIdle

\* ---- the sessionId effect -------------------------------------------
\* The context hands down a new sessionId: the previous effect's cleanup
\* runs, then the effect body.  withWs: the child WorkspaceContainer is
\* mounted and its sessionId effect runs in the same commit.  maxB: how
\* many runs of the effect the specification explores.
SessionEffect(s, withWs, maxB) ==
  /\ bindings < maxB
  /\ bindings' = bindings + 1
  /\ LET wasOpen == Connected(socketRef)
         s1 == Disconnect(Disconnect(sockets, socketRef), wsSocketRef)
         chat == NewSocket("chat", s, connectionStatus,
                           component = "AppWrapper" /\ messages = << >>)
         ws == NewSocket("workspace", s, connectionStatus, FALSE)
     IN /\ sockets' = IF withWs THEN s1 \o << chat, ws >> ELSE s1 \o << chat >>
        /\ socketRef' = Len(sockets) + 1
        /\ wsSocketRef' = IF withWs THEN Len(sockets) + 2 ELSE 0
        /\ connectionStatus' =
             IF wasOpen /\ component # "ChatContainer"
             THEN "disconnected" ELSE connectionStatus
        /\ timers' = ClearTimeout(timers, reconnectTimer)
                        \o (IF withWs THEN << 0, 0 >> ELSE << 0 >>)
        /\ reconnectTimer' = 0
        /\ messages' = CASE component = "AppWrapper" -> << >>
                         [] component = "EunoiaAI" -> << WelcomeEntry >>
                         [] OTHER -> messages
        /\ histFetches' = histFetches \cup {[id |-> Len(sockets) + 1, sid |-> s]}
  /\ isFirstUserMessage' = IF component = "AppWrapper" THEN TRUE
                           ELSE isFirstUserMessage
  /\ seqFetches' = seqFetches
        \cup (IF component = "AppWrapper"
              THEN {[who |-> "app", id |-> Len(sockets) + 1, sid |-> s]} ELSE {})
        \cup (IF withWs
              THEN {[who |-> "workspace", id |-> Len(sockets) + 2, sid |-> s]} ELSE {})
  /\ wsError' = IF withWs THEN FALSE ELSE wsError
  /\ UNCHANGED << component, connectionError, reconnectAttempts,
                  isGenerating, sent, submits, sequenceData, unsaved, editorVars,
                  pushes, cfgFetches, activityVars >>

\* the context hands down another sessionId and the effects run
SessionChange(s, withWs, maxB) ==
  /\ s # sessionId
  /\ sessionId' = s
  /\ SessionEffect(s, withWs, maxB)
  /\ UNCHANGED << regCore, nameVars >>

\* ---- socket events ---------------------------------------------------
\* 'connect' on socket i (a socket of an earlier binding keeps its listeners)
SockConnect(i) ==
  /\ i \in 1..Len(sockets)
  /\ sockets[i].st = "opening"
  /\ sockets' = [sockets EXCEPT ![i].st = "open", ![i].tries = 0]
  /\ IF sockets[i].owner = "workspace"
     THEN /\ wsError' = FALSE
          /\ wsEmitted' = wsEmitted \cup
                             {[ev |-> "join", sid |-> sockets[i].sid]}
          /\ UNCHANGED << connectionStatus, connectionError, reconnectAttempts,
                          cfgFetches >>
     ELSE /\ connectionStatus' =
               IF component = "ChatContainer" THEN connectionStatus ELSE "connected"
          /\ connectionError' = "none"
          /\ reconnectAttempts' = 0
          /\ cfgFetches' = IF component = "AppWrapper"
                           THEN cfgFetches \cup {[empty |-> sockets[i].empty]}
                           ELSE cfgFetches
          /\ UNCHANGED << wsError, wsEmitted >>
  /\ UNCHANGED << component, bindings, sessionId, socketRef, wsSocketRef, timers,
                  reconnectTimer, messages, isGenerating, histFetches, sent >>
  /\ UNCHANGED << regCore, nameVars, isFirstUserMessage, submits, sequenceData,
                  seqFetches, unsaved, isSaving, saveStatus, errorMessage,
                  savePending, saves, removedIds, nowMs, resetCalls, sequence, pushes,
                  activityVars >>

\* the library's own retry after a failed open (options of io())
AfterFailedOpen(sock) ==
  IF sock.owner = "workspace" THEN sock
  ELSE IF sock.tries < maxReconnectAttempts
       THEN [sock EXCEPT !.tries = sock.tries + 1]
       ELSE [sock EXCEPT !.st = "gaveup"]

\* 'connect_error' on socket i
SockConnectError(i) ==
  /\ i \in 1..Len(sockets)
  /\ sockets[i].st = "opening"
  /\ sockets' = [sockets EXCEPT ![i] = AfterFailedOpen(sockets[i])]
  /\ IF sockets[i].owner = "workspace"
     THEN /\ wsError' = TRUE
          /\ UNCHANGED << connectionStatus, connectionError, reconnectAttempts,
                          timers, reconnectTimer >>
     ELSE /\ reconnectAttempts < MaxAttemptsSeen
          /\ reconnectAttempts' = reconnectAttempts + 1
          /\ connectionStatus' =
               IF component = "ChatContainer" THEN connectionStatus ELSE "error"
          /\ IF reconnectAttempts' >= maxReconnectAttempts
             THEN /\ connectionError' = "terminal"
                  /\ UNCHANGED << timers, reconnectTimer >>
             ELSE /\ connectionError' = "retrying"
                  /\ IF component = "ChatContainer"
                     THEN UNCHANGED << timers, reconnectTimer >>
                     ELSE /\ SumSeq(timers) < MaxTimers
                          /\ timers' = [timers EXCEPT ![i] = timers[i] + 1]
                          /\ reconnectTimer' = i
          /\ UNCHANGED wsError
  /\ UNCHANGED << component, bindings, sessionId, socketRef, wsSocketRef, messages,
                  isGenerating, histFetches, sent >>
  /\ UNCHANGED regVars

\* 'disconnect' on socket i: the transport dropped; the library reconnects
SockDisconnect(i) ==
  /\ i \in 1..Len(sockets)
  /\ sockets[i].st = "open"
  /\ sockets' = [sockets EXCEPT ![i].st = "opening",
                                ![i].tries = IF sockets[i].owner = "workspace" THEN 0 ELSE 1]
  /\ connectionStatus' =
       IF sockets[i].owner = "chat" /\ component # "ChatContainer"
       THEN "disconnected" ELSE connectionStatus
  /\ UNCHANGED << component, bindings, sessionId, socketRef, wsSocketRef, timers,
                  reconnectTimer, connectionError, reconnectAttempts, messages,
                  isGenerating, histFetches, sent, wsError >>
  /\ UNCHANGED regVars

\* the reconnect timer's callback; connectionStatus is the value the
\* effect's closure captured
TimerFire(i) ==
  /\ i \in 1..Len(timers)
  /\ timers[i] > 0
  /\ timers' = [timers EXCEPT ![i] = timers[i] - 1]
  /\ reconnectTimer' = IF reconnectTimer = i /\ timers[i] = 1 THEN 0 ELSE reconnectTimer
  /\ sockets' = IF sockets[i].cap # "connected"
                THEN Reopen(sockets, i) ELSE sockets
  /\ UNCHANGED << component, bindings, sessionId, socketRef, wsSocketRef,
                  connectionStatus, connectionError,
                  reconnectAttempts, messages, isGenerating, histFetches, sent,
                  wsError >>
  /\ UNCHANGED regVars

\* an entry carries the flag named f (isStreaming, isGenerating)
Flagged(e, f) == f \in DOMAIN e /\ e[f]

\* prev.filter(msg => !msg.isStreaming)
WithoutStreaming(list) == SelectSeq(list, LAMBDA e : ~Flagged(e, "isStreaming"))

\* prev.filter(msg => !msg.isGenerating)
WithoutGenerating(list) == SelectSeq(list, LAMBDA e : ~Flagged(e, "isGenerating"))

\* 'chat_message' pushed by the server to socket i
ChatMessage(i, role) ==
  /\ i \in 1..Len(sockets)
  /\ sockets[i].owner = "chat"
  /\ sockets[i].st = "open"
  /\ Len(messages) < MaxTranscript
  /\ IF component = "ChatContainer"
     THEN /\ messages' = Append(WithoutStreaming(messages),
                                 [type |-> role, text |-> "reply"])
          /\ isGenerating' = FALSE
     ELSE IF role = "assistant"
          THEN /\ messages' = Append(messages, [type |-> "system", text |-> "reply"])
               /\ isGenerating' = FALSE
          ELSE UNCHANGED << messages, isGenerating >>
  /\ UNCHANGED << component, bindings, sessionId, sockets, socketRef, wsSocketRef, timers,
                  reconnectTimer, connectionStatus, connectionError,
                  reconnectAttempts, histFetches, sent, wsError >>
  /\ UNCHANGED regVars

\* ---- chat history ----------------------------------------------------
\* the response of a pending fetchChatHistory(f.sid)
HistoryResponse(f, ok) ==
  /\ f \in histFetches
  /\ histFetches' = histFetches \ {f}
  /\ IF ok
     THEN /\ messages' =
               IF component = "ChatContainer" \/ Len(UiMessages(ApiMessages(f.sid))) > 0
               THEN UiMessages(ApiMessages(f.sid)) ELSE messages
          /\ UNCHANGED connectionError
     ELSE /\ connectionError' =
               IF component = "ChatContainer" THEN "historyFailed" ELSE connectionError
          /\ UNCHANGED messages
  /\ UNCHANGED << component, bindings, sessionId, sockets, socketRef, wsSocketRef, timers,
                  reconnectTimer, connectionStatus, reconnectAttempts,
                  isGenerating, sent, wsError >>
  /\ UNCHANGED regVars

\* ---- the welcome entry ----------------------------------------------
\* the transcript after fetchAppConfig's answer carried a welcome message:
\* empty is messages.length === 0 in the closure of the call
SeedFromConfig(list, empty) == IF empty THEN << WelcomeEntry >> ELSE list

\* the response of a pending fetchAppConfig(); welcome: the request
\* succeeded and the configuration has a welcome_message
ConfigResponse(f, welcome) ==
  /\ f \in cfgFetches
  /\ cfgFetches' = cfgFetches \ {f}
  /\ messages' = IF welcome THEN SeedFromConfig(messages, f.empty) ELSE messages
  /\ UNCHANGED << component, bindings, sessionId, sockets, socketRef, wsSocketRef, timers,
                  reconnectTimer, connectionStatus, connectionError,
                  reconnectAttempts, isGenerating, histFetches, sent, wsError >>
  /\ UNCHANGED << regCore, nameVars, isFirstUserMessage, submits, sequenceData,
                  seqFetches, unsaved, editorVars, pushes, activityVars >>

\* handleWelcomeMessage: the 'welcome_message' event the provider
\* dispatches after it created a session
WelcomeMessageEvent ==
  /\ component = "AppWrapper"
  /\ messages' = IF messages = << >> THEN << WelcomeEntry >> ELSE messages
  /\ UNCHANGED << component, bindings, sessionId, sockets, socketRef, wsSocketRef, timers,
                  reconnectTimer, connectionStatus, connectionError,
                  reconnectAttempts, isGenerating, histFetches, sent, wsError >>
  /\ UNCHANGED regVars

\* ---- sending a user message -----------------------------------------
UserEntry == [type |-> "user", text |-> "m"]

\* one accepted message: was the socket connected, which paths carried it
Delivery(conn, emit, post) == [conn |-> conn, emit |-> emit, post |-> post]

\* `Session ${new Date().toLocaleString()}` at clock reading t
DefaultName(t) == "Session " \o ToString(t)

\* `New Chat ${new Date().toLocaleString()}` at clock reading t
NewChatName(t) == "New Chat " \o ToString(t)

\* the text of the k-th message of the run: short, no blanks
MessageText(k) == "m" \o ToString(k)

\* message.substring(0, 30).trim() plus '...' from 30 characters on, for
\* the texts of MessageText
TruncatedName(text) == text

\* generateSessionName's early return (sessionId and message are non-blank
\* where handleSubmit calls it)
NameIsDefaultNow == currentSessionName = DefaultName(clock)

\* AppWrapper.handleSubmit with a non-blank input, generateSessionName and
\* renameSession up to the PUT request included
HandleSubmit ==
  /\ component = "AppWrapper"
  /\ Len(sent) < MaxSends
  /\ ~isGenerating
  /\ connectionStatus # "error"
  /\ socketRef # 0
  /\ sessionId # ""
  /\ LET text == MessageText(Len(sent) + 1)
         renames == isFirstUserMessage /\ NameIsDefaultNow
     IN /\ submits' = Append(submits, [sid |-> sessionId, text |-> text,
                                        renamed |-> renames])
        /\ IF renames
           THEN /\ isRenamingSession' = TRUE
                /\ renamePending' = renamePending \cup
                     {[sid |-> sessionId, name |-> TruncatedName(text),
                       sessionId |-> sessionId]}
           ELSE UNCHANGED << isRenamingSession, renamePending >>
  /\ isFirstUserMessage' = FALSE
  /\ messages' = Append(messages, UserEntry)
  /\ sent' = Append(sent, Delivery(Connected(socketRef), TRUE, FALSE))
  /\ isGenerating' = TRUE
  /\ UNCHANGED << component, bindings, sessionId, sockets, socketRef, wsSocketRef, timers,
                  reconnectTimer, connectionStatus, connectionError,
                  reconnectAttempts, histFetches, wsError >>
  /\ UNCHANGED << regCore, currentSessionName, renamed, clock, docVars >>

\* EunoiaAI.handleSubmit with a non-blank input; ok = the fallback POST succeeded
PageHandleSubmit(ok) ==
  /\ component = "EunoiaAI"
  /\ Len(sent) < MaxSends
  /\ ~isGenerating
  /\ sessionId # ""
  /\ IF Connected(socketRef)
     THEN /\ sent' = Append(sent, Delivery(TRUE, TRUE, FALSE))
          /\ messages' = Append(messages, UserEntry)
          /\ isGenerating' = TRUE
     ELSE /\ sent' = Append(sent, Delivery(FALSE, FALSE, TRUE))
          /\ IF ok
             THEN /\ messages' = Append(messages, UserEntry)
                  /\ isGenerating' = TRUE
             ELSE /\ messages' = messages \o
                       << UserEntry, [type |-> "system", text |-> "sendError"] >>
                  /\ isGenerating' = FALSE
  /\ UNCHANGED << component, bindings, sessionId, sockets, socketRef, wsSocketRef, timers,
                  reconnectTimer, connectionStatus, connectionError,
                  reconnectAttempts, histFetches, wsError >>
  /\ UNCHANGED regVars

\* ChatContainer.handleSendMessage; ok = the POST /api/chat succeeded
HandleSendMessage(ok) ==
  /\ component = "ChatContainer"
  /\ Len(sent) < MaxSends
  /\ ~isGenerating                 \* ChatInput is disabled while loading
  /\ connectionError = "none"      \* ... or while an error is shown
  /\ IF ~Connected(socketRef)
     THEN /\ sent' = Append(sent, Delivery(FALSE, FALSE, TRUE))
          /\ messages' = IF ok
                         THEN messages \o << UserEntry,
                                [type |-> "assistant", text |-> "httpReply"] >>
                         ELSE Append(messages, UserEntry)
          /\ isGenerating' = FALSE
     ELSE /\ sent' = Append(sent, Delivery(TRUE, TRUE, TRUE))
          /\ messages' = Append(messages, UserEntry)
          /\ isGenerating' = ok
  /\ connectionError' = IF ok THEN connectionError ELSE "sendFailed"
  /\ UNCHANGED << component, bindings, sessionId, sockets, socketRef, wsSocketRef, timers,
                  reconnectTimer, connectionStatus, reconnectAttempts,
                  histFetches, wsError >>
  /\ UNCHANGED regVars

\* ---- the submit handler with the text it is given ---------------------
MaxSubmitCalls == 2     \* calls of the submit handler in one run

\* the texts of the input field, as sequences of characters
InputTexts == { << >>, << " " >>, << " ", " " >>, << "a" >>, << " ", "a", " " >> }

\* String.prototype.trim()
RECURSIVE TrimStart(_)
TrimStart(t) == IF t # << >> /\ Head(t) = " " THEN TrimStart(Tail(t)) ELSE t
RECURSIVE TrimEnd(_)
TrimEnd(t) ==
  IF t # << >> /\ t[Len(t)] = " " THEN TrimEnd(SubSeq(t, 1, Len(t) - 1)) ELSE t
Trim(t) == TrimEnd(TrimStart(t))

\* an early return that tests the text as typed
RejectedUntrimmed(text) ==
  IF component = "AppWrapper"
  THEN \/ text = << >>
       \/ isGenerating
       \/ connectionStatus = "error"
       \/ socketRef = 0
       \/ sessionId = ""
  ELSE \/ text = << >>
       \/ isGenerating
       \/ socketRef = 0

\* the early return of AppWrapper.handleSubmit and of
\* ChatContainer.handleSendMessage
Rejected(text) ==
  IF component = "AppWrapper"
  THEN \/ Trim(text) = << >>
       \/ isGenerating
       \/ connectionStatus = "error"
       \/ socketRef = 0
       \/ sessionId = ""
  ELSE \/ Trim(text) = << >>
       \/ isGenerating
       \/ socketRef = 0

\* AppWrapper.handleSubmit with userInput = text, or
\* ChatContainer.handleSendMessage(text): the whole call, the early
\* return included
SubmitText(text) ==
  /\ component \in {"AppWrapper", "ChatContainer"}
  /\ submitCalls < MaxSubmitCalls
  /\ submitCalls' = submitCalls + 1
  /\ IF Rejected(text)
     THEN UNCHANGED << messages, sent, isGenerating, isFirstUserMessage, submits,
                       isRenamingSession, renamePending >>
     ELSE /\ Len(sent) < MaxSends
          /\ LET renames == isFirstUserMessage /\ sessionId # "" /\ NameIsDefaultNow
             IN /\ submits' =
                     IF component = "AppWrapper"
                     THEN Append(submits, [sid |-> sessionId,
                                           text |-> MessageText(Len(sent) + 1),
                                           renamed |-> renames])
                     ELSE submits
                /\ IF renames
                   THEN /\ isRenamingSession' = TRUE
                        /\ renamePending' = renamePending \cup
                             {[sid |-> sessionId,
                               name |-> TruncatedName(MessageText(Len(sent) + 1)),
                               sessionId |-> sessionId]}
                   ELSE UNCHANGED << isRenamingSession, renamePending >>
          /\ isFirstUserMessage' = FALSE
          /\ messages' = Append(messages, UserEntry)
          /\ sent' = Append(sent, Delivery(Connected(socketRef), TRUE, FALSE))
          /\ isGenerating' = TRUE
  /\ UNCHANGED << component, bindings, sessionId, sockets, socketRef, wsSocketRef, timers,
                  reconnectTimer, connectionStatus, connectionError,
                  reconnectAttempts, histFetches, wsError >>
  /\ UNCHANGED << regCore, currentSessionName, renamed, clock, sequenceData,
                  seqFetches, unsaved, editorVars, pushes, cfgFetches, usingTool,
                  events >>

\* ======================================================================
\* Session registry (AgentProvider)
\* ======================================================================
Sess(id, name, t) == [id |-> id, name |-> name, created_at |-> t]

\* what localStorage 'sessions' holds when the page loads
Absent == [present |-> FALSE, list |-> << >>]
Stored(list) == [present |-> TRUE, list |-> list]

LocalChoices ==
  { Absent, Stored(<< Sess("s1", "loc1", 1) >>),
    Stored(<< Sess("s1", "loc1", 1), Sess("s2", "loc2", 2) >>) }

\* what localStorage 'sessionId' holds when the page loads
StoredIdChoices == {"", "s1", "s3"}

\* what the server may answer to GET /api/sessions
ServerChoices ==
  { << Sess("s2", "srv2", 2), Sess("s1", "srv1", 1) >>,
    << Sess("s1", "srv1", 1), Sess("s2", "srv2", 2), Sess("s3", "srv3", 3) >> }

BootOutcomes == {"ok", "okNotArray", "notOk", "fetchThrows", "jsonThrows"}

Ids(list) == {list[k].id : k \in 1..Len(list)}

\* localSessionsData: the parsed cache, [] when there is none
LocalData(stored) == stored.list

\* page.tsx mounts the AgentProvider of contexts/AgentContext.tsx, the other
\* components the one of contexts/agent-context
EarlierProvider == component = "EunoiaAI"

\* the list the earlier initializeSession takes from an array answer
ReconcileEarlier(stored, server) == server

\* the reconciliation of the server list with the local cache
Reconcile(stored, server) ==
  IF stored.present
  THEN SelectSeq(server, LAMBDA x : x.id \in Ids(LocalData(stored)))
  ELSE server

\* sessions.filter(s => s.id !== sid)
RemoveSession(list, sid) == SelectSeq(list, LAMBDA x : x.id # sid)

\* a catch branch that rolls the optimistic removal back
AfterDeleteFailureKept(list, sid) == list

\* the list deleteSession installs when the server call failed
AfterDeleteFailure(list, sid) == RemoveSession(list, sid)

\* uuidv4() and the session object built around it
NewSession(n) == Sess("n" \o ToString(n + 1), DefaultName(clock), 10 + n)

\* list.find(s => s.id === sid)?.name, dflt when there is none
NameOf(list, sid, dflt) ==
  IF sid \in Ids(list)
  THEN list[CHOOSE k \in 1..Len(list) :
              list[k].id = sid /\ \A j \in 1..(k - 1) : list[j].id # sid].name
  ELSE dflt

\* currentSessionName after a handler that set it to h; ran: sessionId or
\* sessions got a new value, so the effect on [sessionId, sessions] runs
NameEffect(h, ran) ==
  currentSessionName' =
    IF ran /\ sessionId' # "" /\ sessions' # << >>
    THEN NameOf(sessions', sessionId', h) ELSE h

\* the state after the mount effect has read localStorage and issued the
\* list request
InitRegistry ==
  /\ ChannelInit
  /\ component \in {"AppWrapper", "EunoiaAI"}
  /\ lsSessions \in LocalChoices
  /\ lsSessionId \in StoredIdChoices
  /\ storedSessions = lsSessions
  /\ storedSessionId = lsSessionId
  /\ sessions = << >>
  /\ boot = "fetching"
  /\ serverSessionsData = << >>
  /\ finalSessions = << >>
  /\ bootOutcome = "none"
  /\ isDeletingSession = FALSE
  /\ delPending = {}
  /\ deleted = {}
  /\ resetChains = {}
  /\ createCalls = {}
  /\ nextId = 0

\* initializeSession from the answer of the list request to its end,
\* createNewSessionInternal included, in either provider
BootResponse(outcome, server) ==
  /\ boot = "fetching"
  /\ boot' = "done"
  /\ bootOutcome' = outcome
  /\ serverSessionsData' = IF outcome = "ok" THEN server ELSE << >>
  /\ LET local == LocalData(storedSessions)
         final == IF EarlierProvider
                  THEN CASE outcome = "ok" -> ReconcileEarlier(storedSessions, server)
                         [] outcome = "notOk" -> local
                         [] OTHER -> << >>
                  ELSE CASE outcome = "ok" -> Reconcile(storedSessions, server)
                         [] outcome = "fetchThrows" -> finalSessions
                         [] OTHER -> local
         listAfter == CASE outcome = "ok" -> final
                        [] outcome = "notOk" /\ (storedSessions.present \/ ~EarlierProvider)
                             -> local
                        [] OTHER -> sessions
         lsAfter == IF outcome = "ok" THEN Stored(final) ELSE lsSessions
         throws == outcome \in {"fetchThrows", "jsonThrows"}
         reuse == ~throws /\ storedSessionId # "" /\ storedSessionId \in Ids(final)
         new == NewSession(nextId)
     IN /\ finalSessions' = final
        /\ IF reuse
           THEN /\ sessionId' = storedSessionId
                /\ sessions' = listAfter
                /\ lsSessions' = lsAfter
                /\ UNCHANGED << lsSessionId, nextId >>
           ELSE /\ nextId < MaxCreated
                /\ nextId' = nextId + 1
                /\ sessionId' = new.id
                /\ lsSessionId' = new.id
                /\ sessions' = Append(listAfter, new)
                /\ lsSessions' = Stored(Append(listAfter, new))
  /\ UNCHANGED << storedSessionId, storedSessions, isDeletingSession, delPending,
                  deleted, resetChains, createCalls, isRenamingSession,
                  renamePending, renamed, clock >>
  /\ NameEffect(IF sessionId' = storedSessionId
                THEN NameOf(finalSessions', storedSessionId, currentSessionName)
                ELSE DefaultName(clock), TRUE)
  /\ UNCHANGED chanRest

\* createNewSession up to the first attemptSequenceReset call. Of the
\* earlier provider only the mount effect is modelled; create, switch and
\* delete are those of contexts/agent-context.
CreateNewSession ==
  /\ ~EarlierProvider
  /\ nextId < MaxCreated
  /\ LET new == NewSession(nextId)
     IN /\ sessionId' = new.id
        /\ lsSessionId' = new.id
        /\ sessions' = Append(sessions, new)
        /\ lsSessions' = Stored(Append(sessions, new))
        /\ resetChains' = resetChains \cup {[sid |-> new.id, attempts |-> 1]}
        /\ createCalls' = createCalls \cup {[sid |-> new.id, st |-> "pending"]}
  /\ nextId' = nextId + 1
  /\ UNCHANGED << boot, storedSessionId, storedSessions, serverSessionsData,
                  finalSessions, bootOutcome, isDeletingSession, delPending, deleted,
                  isRenamingSession, renamePending, renamed,
                  clock >>
  /\ NameEffect(DefaultName(clock), TRUE)
  /\ UNCHANGED chanRest

\* a catch callback that takes the session out of the list again
AfterCreateFailureRolledBack(list, sid) == RemoveSession(list, sid)

\* the list after the catch callback of createNewSession's POST, which
\* only logs
AfterCreateFailure(list, sid) == list

\* the response of createNewSession's POST /api/sessions
CreateResponse(c, ok) ==
  /\ c \in createCalls
  /\ c.st = "pending"
  /\ createCalls' = (createCalls \ {c})
                      \cup {[sid |-> c.sid, st |-> IF ok THEN "done" ELSE "failed"]}
  /\ sessions' = IF ok THEN sessions ELSE AfterCreateFailure(sessions, c.sid)
  /\ lsSessions' = IF sessions' = sessions THEN lsSessions ELSE Stored(sessions')
  /\ UNCHANGED << sessionId, lsSessionId, boot, storedSessionId, storedSessions,
                  serverSessionsData, finalSessions, bootOutcome, isDeletingSession,
                  delPending, deleted, resetChains, nextId, nameVars, chanRest >>

\* a catch handler that schedules another attempt after every failure
RetryReset(c, ok) == ~ok

\* the catch handler of attemptSequenceReset schedules another attempt
RetryAfterFailure(c, ok) == ~ok /\ c.attempts < maxResetAttempts

\* the end of one attemptSequenceReset round (reset, then chat/new)
ResetResponse(c, ok) ==
  /\ c \in resetChains
  /\ UNCHANGED << sessions, lsSessionId, lsSessions, boot, storedSessionId,
                  storedSessions, serverSessionsData, finalSessions, bootOutcome,
                  isDeletingSession, delPending, deleted, createCalls, nextId,
                  isRenamingSession, renamePending, renamed,
                  clock >>
  /\ IF RetryAfterFailure(c, ok)
     THEN /\ resetChains' = (resetChains \ {c}) \cup
                              {[sid |-> c.sid, attempts |-> c.attempts + 1]}
          /\ UNCHANGED << sessionId, currentSessionName >>
     ELSE /\ resetChains' = resetChains \ {c}
          /\ sessionId' = c.sid
          /\ NameEffect(NewChatName(clock), c.sid # sessionId)
  /\ UNCHANGED chanRest

\* switchSession(sid): the id is stored before the list is searched, and
\* only the name update depends on the search
SwitchSession(sid) ==
  /\ ~EarlierProvider
  /\ sessionId' = sid
  /\ lsSessionId' = sid
  /\ UNCHANGED << sessions, lsSessions, boot, storedSessionId, storedSessions,
                  serverSessionsData, finalSessions, bootOutcome,
                  isDeletingSession, delPending, deleted, resetChains, createCalls, nextId,
                  isRenamingSession, renamePending, renamed,
                  clock >>
  /\ NameEffect(NameOf(sessions, sid, currentSessionName), sid # sessionId)
  /\ UNCHANGED chanRest

\* a deleteSession without the isDeletingSession early return
DeleteSessionUnguarded(sid) ==
  /\ ~EarlierProvider
  /\ sid \in Ids(sessions)
  /\ Cardinality(deleted) < MaxDeletes
  /\ isDeletingSession' = TRUE
  /\ delPending' = delPending \cup {[sid |-> sid, sessions |-> sessions, sessionId |-> sessionId]}
  /\ UNCHANGED << sessionId, sessions, lsSessionId, lsSessions, boot,
                  storedSessionId, storedSessions, serverSessionsData,
                  finalSessions, bootOutcome, deleted, resetChains, createCalls, nextId >>
  /\ UNCHANGED nameVars
  /\ UNCHANGED chanRest

\* deleteSession(sid) up to the DELETE request; the promise callbacks close
\* over the sessions and sessionId of this render. A call made while
\* isDeletingSession is set returns at once and is no step.
DeleteSession(sid) ==
  /\ ~EarlierProvider
  /\ sid \in Ids(sessions)
  /\ ~isDeletingSession
  /\ Cardinality(deleted) < MaxDeletes
  /\ isDeletingSession' = TRUE
  /\ delPending' = delPending \cup {[sid |-> sid, sessions |-> sessions, sessionId |-> sessionId]}
  /\ UNCHANGED << sessionId, sessions, lsSessionId, lsSessions, boot,
                  storedSessionId, storedSessions, serverSessionsData,
                  finalSessions, bootOutcome, deleted, resetChains, createCalls, nextId >>
  /\ UNCHANGED nameVars
  /\ UNCHANGED chanRest

\* the then / catch / finally callbacks of deleteSession
DeleteResponse(d, ok) ==
  /\ d \in delPending
  /\ LET
         updated == IF ok THEN RemoveSession(d.sessions, d.sid)
                    ELSE AfterDeleteFailure(d.sessions, d.sid)
         new == NewSession(nextId)
     IN IF ok /\ d.sid = d.sessionId
        THEN IF Len(updated) > 0
             THEN /\ sessions' = updated
                  /\ lsSessions' = Stored(updated)
                  /\ sessionId' = updated[1].id
                  /\ lsSessionId' = updated[1].id
                  /\ NameEffect(updated[1].name, TRUE)
                  /\ UNCHANGED << resetChains, createCalls, nextId >>
             ELSE /\ nextId < MaxCreated
                  /\ nextId' = nextId + 1
                  /\ sessions' = Append(updated, new)
                  /\ lsSessions' = Stored(Append(updated, new))
                  /\ sessionId' = new.id
                  /\ lsSessionId' = new.id
                  /\ NameEffect(DefaultName(clock), TRUE)
                  /\ resetChains' = resetChains \cup {[sid |-> new.id, attempts |-> 1]}
                  /\ createCalls' = createCalls \cup {[sid |-> new.id, st |-> "pending"]}
        ELSE /\ sessions' = updated
             /\ lsSessions' = Stored(updated)
             /\ UNCHANGED << sessionId, lsSessionId, resetChains, createCalls, nextId >>
             /\ NameEffect(currentSessionName, TRUE)
  /\ deleted' = deleted \cup {[sid |-> d.sid, ok |-> ok]}
  /\ delPending' = delPending \ {d}
  /\ isDeletingSession' = FALSE
  /\ UNCHANGED << boot, storedSessionId, storedSessions, serverSessionsData,
                  finalSessions, bootOutcome, isRenamingSession, renamePending, renamed,
                  clock >>
  /\ UNCHANGED chanRest

\* sessions.map(session => session.id === sid ? { ...session, name } : session)
Renamed(list, sid, name) ==
  [k \in 1..Len(list) |->
     IF list[k].id = sid THEN [list[k] EXCEPT !.name = name] ELSE list[k]]

\* the name the user types into the sidebar's rename field
UserName == "renamed"

\* renameSession(sid, name) called from the sidebar, whose confirm button
\* is disabled while isRenamingSession is set
RenameSession(sid, name) ==
  /\ ~EarlierProvider
  /\ sid \in Ids(sessions)
  /\ ~isRenamingSession
  /\ Cardinality(renamed) < MaxRenames
  /\ isRenamingSession' = TRUE
  /\ renamePending' = renamePending \cup
                         {[sid |-> sid, name |-> name, sessionId |-> sessionId]}
  /\ UNCHANGED << sessionId, regCore, currentSessionName, renamed, clock, chanRest >>

\* ---- generateSessionName on the text of a message ----------------------
NameLimit == 30
MaxTextLen == 32        \* longest message text tried

\* n characters "a", the one at position p (if any) a blank
TextOf(n, p) == [k \in 1..n |-> IF k = p THEN " " ELSE "a"]

\* the message texts generateSessionName is tried on: trimmed, as its
\* callers pass them, of the lengths around the limit, plain or with one
\* inner blank near the limit
NameTexts ==
  { TextOf(n, 0) : n \in 1..MaxTextLen }
    \cup { TextOf(n, p) : n \in (NameLimit + 1)..MaxTextLen,
                          p \in (NameLimit - 2)..NameLimit }

\* message.substring(0, 30).trim() + (truncatedMessage.length >= 30 ? '...' : '')
AutoName(message) ==
  LET truncatedMessage ==
        Trim(SubSeq(message, 1, IF Len(message) < NameLimit THEN Len(message)
                                ELSE NameLimit))
  IN truncatedMessage \o (IF Len(truncatedMessage) >= NameLimit
                          THEN << ".", ".", "." >> ELSE << >>)

\* generateSessionName(message) where it does not return at once, with
\* the renameSession call it makes up to the PUT request
GenerateSessionName(message) ==
  /\ ~EarlierProvider
  /\ sessionId # ""
  /\ Trim(message) # << >>
  /\ NameIsDefaultNow
  /\ Trim(AutoName(message)) # << >>
  /\ Cardinality(renamePending) < MaxRenames
  /\ isRenamingSession' = TRUE
  /\ renamePending' = renamePending \cup
       {[sid |-> sessionId, name |-> AutoName(message), sessionId |-> sessionId]}
  /\ UNCHANGED << sessionId, regCore, currentSessionName, renamed, clock, chanRest >>

\* a catch callback that puts the list back as it was
AfterRenameFailureRolledBack(list, sid, name) == list

\* the list the catch callback of renameSession stores
AfterRenameFailure(list, sid, name) == Renamed(list, sid, name)

\* the then / catch callbacks of renameSession
RenameResponse(r, ok) ==
  /\ r \in renamePending
  /\ renamePending' = renamePending \ {r}
  /\ renamed' = renamed \cup {[sid |-> r.sid, name |-> r.name, ok |-> ok]}
  /\ isRenamingSession' = FALSE
  /\ sessions' = IF ok THEN Renamed(sessions, r.sid, r.name)
                 ELSE AfterRenameFailure(sessions, r.sid, r.name)
  /\ lsSessions' = Stored(sessions')
  /\ UNCHANGED << sessionId, lsSessionId, boot, storedSessionId, storedSessions,
                  serverSessionsData, finalSessions, bootOutcome, isDeletingSession,
                  delPending, deleted, resetChains, createCalls, nextId, clock >>
  /\ NameEffect(IF ok /\ r.sid = r.sessionId THEN r.name ELSE currentSessionName,
                TRUE)
  /\ UNCHANGED chanRest

\* a second passes on the wall clock
Tick ==
  /\ clock < MaxClock
  /\ clock' = clock + 1
  /\ UNCHANGED << chanVars, regCore, appVars, currentSessionName,
                  isRenamingSession, renamePending, renamed >>

NextRegistry ==
  \/ \E o \in BootOutcomes, server \in ServerChoices : BootResponse(o, server)
  \/ CreateNewSession
  \/ \E c \in resetChains, ok \in BOOLEAN : ResetResponse(c, ok)
  \/ \E sid \in Ids(sessions) : SwitchSession(sid)
  \/ \E sid \in Ids(sessions) : DeleteSession(sid)
  \/ \E d \in delPending, ok \in BOOLEAN : DeleteResponse(d, ok)

SpecRegistry == InitRegistry /\ [][NextRegistry]_vars

\* ---- the registry with the outcome of the create request -------------
NextCreate ==
  \/ \E o \in BootOutcomes, server \in ServerChoices : BootResponse(o, server)
  \/ CreateNewSession
  \/ \E c \in createCalls, ok \in BOOLEAN : CreateResponse(c, ok)
  \/ \E c \in resetChains, ok \in BOOLEAN : ResetResponse(c, ok)
  \/ \E sid \in Ids(sessions) : SwitchSession(sid)

\* the registry of contexts/agent-context at page load
InitProvider == InitRegistry /\ component = "AppWrapper"

SpecCreate == InitProvider /\ [][NextCreate]_vars

\* ---- the registry with switchSession called for any id ---------------
\* the ids a caller of switchSession may hold: the listed ones and ids of
\* sessions that are not, or no longer, in the list
SwitchTargets == Ids(sessions) \cup {"s1", "s2", "s3"}

NextSwitch ==
  \/ \E o \in BootOutcomes, server \in ServerChoices : BootResponse(o, server)
  \/ CreateNewSession
  \/ \E sid \in SwitchTargets : SwitchSession(sid)
  \/ \E sid \in Ids(sessions) : DeleteSession(sid)
  \/ \E d \in delPending, ok \in BOOLEAN : DeleteResponse(d, ok)

SpecSwitch == InitProvider /\ [][NextSwitch]_vars

\* ---- the registry with the automatic name ------------------------------
NextAutoName ==
  \/ \E o \in BootOutcomes, server \in ServerChoices : BootResponse(o, server)
  \/ \E message \in NameTexts : GenerateSessionName(message)

SpecAutoName == InitProvider /\ [][NextAutoName]_vars

\* ---- the registry with the sidebar's rename --------------------------
NextNames ==
  \/ \E o \in BootOutcomes, server \in ServerChoices : BootResponse(o, server)
  \/ \E sid \in Ids(sessions) : SwitchSession(sid)
  \/ \E sid \in Ids(sessions) : RenameSession(sid, UserName)
  \/ \E r \in renamePending, ok \in BOOLEAN : RenameResponse(r, ok)
  \/ \E sid \in Ids(sessions) : DeleteSession(sid)
  \/ \E d \in delPending, ok \in BOOLEAN : DeleteResponse(d, ok)

SpecNames == InitProvider /\ [][NextNames]_vars

\* ======================================================================
\* Sequence document (AppWrapper, WorkspaceContainer, SequenceEditor)
\* ======================================================================
\* a SequenceStep; "" stands for a field that is missing or empty
Step(id, n, day, channel, message, subject) ==
  [id |-> id, step |-> n, day |-> day, channel |-> channel,
   message |-> message, subject |-> subject]

\* null, a SequenceData of session sid, an object without a steps array
NullDoc == [kind |-> "null", sid |-> "", steps |-> << >>]
Doc(sid, steps) == [kind |-> "doc", sid |-> sid, steps |-> steps]
NoStepsDoc(sid) == [kind |-> "nosteps", sid |-> sid, steps |-> << >>]

\* the documents the server may hold for session sid
ServerDocs(sid) ==
  { Doc(sid, << Step("a", 1, 1, "Email", "hi", "Hello"),
                Step("b", 2, 4, "LinkedIn", "yo", "") >>),
    Doc(sid, << Step("a", 1, 1, "Email", "", "Hello"),
                Step("b", 2, 4, "LinkedIn", "yo", "") >>),
    Doc(sid, << Step("a", 1, 1, "Email", "hi", "Hello"),
                Step("b", 2, 4, "", "yo", "") >>),
    Doc(sid, << Step("", 1, 1, "Email", "hi", "Hello") >>),
    NoStepsDoc(sid) }

\* app-wrapper.tsx validateSequenceStructure (every modelled message is a
\* string, the empty one included)
validateSequenceStructure(data) ==
  /\ data.kind = "doc"
  /\ \A k \in 1..Len(data.steps) :
       data.steps[k].id # "" /\ data.steps[k].channel # ""

\* WorkspaceContainer.sanitizeSequenceData
sanitizeSequenceData(data) ==
  IF data.kind # "doc" THEN Doc(data.sid, << >>)
  ELSE LET validSteps == SelectSeq(data.steps,
                           LAMBDA st : st.message # "" /\ st.channel # "")
       IN Doc(data.sid,
              [k \in 1..Len(validSteps) |->
                 IF validSteps[k].id # "" THEN validSteps[k]
                 ELSE [validSteps[k] EXCEPT !.id = "step-" \o ToString(k - 1)]])

\* 'sequence_update' pushed by the server to socket i: the handler of
\* AppWrapper on its socket, the one of WorkspaceContainer on its own
SequenceUpdate(i, data) ==
  /\ i \in 1..Len(sockets)
  /\ sockets[i].st = "open"
  /\ component = "AppWrapper"
  /\ pushes < MaxPushes
  /\ IF sockets[i].owner = "chat"
     THEN /\ sequenceData' = CASE data.kind = "doc" /\ validateSequenceStructure(data) -> data
                               [] data.kind = "null" -> NullDoc
                               [] OTHER -> sequenceData
          /\ isGenerating' = IF data.kind \in {"doc", "null"} THEN FALSE ELSE isGenerating
          /\ UNCHANGED wsError
     ELSE /\ sequenceData' = CASE data.kind = "doc" -> sanitizeSequenceData(data)
                               [] data.kind = "null" -> NullDoc
                               [] OTHER -> sequenceData
          /\ UNCHANGED << isGenerating, wsError >>
  /\ unsaved' = IF sequenceData' = sequenceData THEN unsaved ELSE FALSE
  /\ UNCHANGED << component, bindings, sessionId, sockets, socketRef, wsSocketRef, timers,
                  reconnectTimer, connectionStatus, connectionError,
                  reconnectAttempts, messages, histFetches, sent,
                  isFirstUserMessage, submits, seqFetches, editorVars, cfgFetches >>
  /\ pushes' = pushes + 1
  /\ UNCHANGED activityVars
  /\ UNCHANGED << regCore, nameVars >>

\* the response of a pending fetchSequenceData(f.sid): outcome "doc" carries
\* sequence_data, "none" carries none (or 404), "fail" is any failure
SeqFetchResponse(f, outcome, data) ==
  /\ f \in seqFetches
  /\ seqFetches' = seqFetches \ {f}
  /\ IF f.who = "app"
     THEN /\ sequenceData' = IF outcome = "doc" THEN data ELSE NullDoc
          /\ UNCHANGED wsError
     ELSE /\ sequenceData' = IF outcome = "doc" THEN sanitizeSequenceData(data)
                              ELSE NullDoc
          /\ wsError' = (outcome = "fail")
  /\ unsaved' = IF sequenceData' = sequenceData THEN unsaved ELSE FALSE
  /\ UNCHANGED << component, bindings, sessionId, sockets, socketRef, wsSocketRef, timers,
                  reconnectTimer, connectionStatus, connectionError,
                  reconnectAttempts, messages, isGenerating, histFetches, sent,
                  isFirstUserMessage, submits, editorVars, pushes, cfgFetches,
                  activityVars >>
  /\ UNCHANGED << regCore, nameVars >>

\* what the SequenceEditor handlers leave alone
editorRest == << chanVars, regCore, nameVars, isFirstUserMessage, submits, seqFetches,
                pushes, cfgFetches, activityVars >>

\* SequenceEditor is rendered while sequenceData is a document
EditorMounted == component = "AppWrapper" /\ sequenceData.kind = "doc"

\* SequenceEditor.updateStepField
updateStepField(stepId, field, value) ==
  /\ EditorMounted
  /\ nowMs < MaxEdits
  /\ stepId \in {sequenceData.steps[k].id : k \in 1..Len(sequenceData.steps)}
  /\ sequenceData' =
       [sequenceData EXCEPT !.steps =
          [k \in 1..Len(sequenceData.steps) |->
             IF sequenceData.steps[k].id = stepId
             THEN CASE field = "message" -> [sequenceData.steps[k] EXCEPT !.message = value]
                    [] field = "channel" -> [sequenceData.steps[k] EXCEPT !.channel = value]
                    [] OTHER -> [sequenceData.steps[k] EXCEPT !.subject = value]
             ELSE sequenceData.steps[k]]]
  /\ unsaved' = TRUE
  /\ nowMs' = nowMs + 1
  /\ UNCHANGED << isSaving, saveStatus, errorMessage, savePending, saves, removedIds,
                  wsEmitted, resetCalls, sequence >>
  /\ UNCHANGED editorRest

\* the values the form controls can hand to updateStepField
FieldEdits ==
  {<< "message", "" >>, << "message", "edited" >>, << "channel", "LinkedIn" >>,
   << "channel", "Email" >>, << "subject", "" >>, << "subject", "Hello" >>}

\* `step-${Date.now()}`; the page loaded at FirstMs
FirstMs == 1000
StepIdAt(ms) == "step-" \o ToString(FirstMs + ms)

\* SequenceEditor.addStep
addStep ==
  /\ EditorMounted
  /\ nowMs < MaxEdits
  /\ Len(sequenceData.steps) < MaxSteps
  /\ LET n == Len(sequenceData.steps)
         lastStepDay == IF n > 0 THEN sequenceData.steps[n].day ELSE 0
         newStep == Step(StepIdAt(nowMs), n + 1, lastStepDay + 3, "Email",
                         "Enter your message here...", "")
     IN sequenceData' = [sequenceData EXCEPT !.steps = Append(sequenceData.steps, newStep)]
  /\ unsaved' = TRUE
  /\ nowMs' = nowMs + 1
  /\ UNCHANGED << isSaving, saveStatus, errorMessage, savePending, saves, removedIds,
                  wsEmitted, resetCalls, sequence >>
  /\ UNCHANGED editorRest

\* SequenceEditor.removeStep
removeStep(stepId) ==
  /\ EditorMounted
  /\ nowMs < MaxEdits
  /\ stepId \in {sequenceData.steps[k].id : k \in 1..Len(sequenceData.steps)}
  /\ LET kept == SelectSeq(sequenceData.steps, LAMBDA st : st.id # stepId)
     IN sequenceData' =
          [sequenceData EXCEPT !.steps =
             [k \in 1..Len(kept) |-> [kept[k] EXCEPT !.step = k]]]
  /\ removedIds' = removedIds \cup {stepId}
  /\ unsaved' = TRUE
  /\ nowMs' = nowMs + 1
  /\ UNCHANGED << isSaving, saveStatus, errorMessage, savePending, saves, wsEmitted,
                  resetCalls, sequence >>
  /\ UNCHANGED editorRest

\* SequenceEditor.validateSequence: the message it sets, "none" when it
\* returns true
RECURSIVE FirstStepError(_)
FirstStepError(steps) ==
  IF steps = << >> THEN "none"
  ELSE LET st == Head(steps)
       IN CASE st.message = "" -> "All steps must have a message"
            [] st.channel = "" -> "All steps must have a channel selected"
            [] st.channel = "Email" /\ st.subject = ""
                 -> "Email steps must have a subject line"
            [] OTHER -> FirstStepError(Tail(steps))

\* a validateSequence that accepts every document
validateSequenceLax(data) == "none"

\* SequenceEditor.validateSequence with the check for an empty step list
validateSequence(data) ==
  IF data.steps = << >> THEN "Sequence must have at least one step"
  ELSE FirstStepError(data.steps)

\* SequenceEditor.handleSaveSequence up to the POST request
handleSaveSequence ==
  /\ EditorMounted
  /\ sessionId # ""
  /\ ~isSaving
  /\ saves < MaxSaves
  /\ IF validateSequence(sequenceData) # "none"
     THEN /\ errorMessage' = validateSequence(sequenceData)
          /\ saveStatus' = "error"
          /\ UNCHANGED << isSaving, savePending, saves >>
     ELSE /\ isSaving' = TRUE
          /\ errorMessage' = "none"
          /\ savePending' = savePending \cup {[sid |-> sessionId, doc |-> sequenceData]}
          /\ saves' = saves + 1
          /\ UNCHANGED saveStatus
  /\ UNCHANGED << sequenceData, unsaved, removedIds, nowMs, wsEmitted,
                  resetCalls, sequence >>
  /\ UNCHANGED editorRest

\* the response of POST /api/sequences/save; nothing is emitted on the
\* socket of WorkspaceContainer, which SequenceEditor is not handed
SaveResponse(p, ok) ==
  /\ p \in savePending
  /\ savePending' = savePending \ {p}
  /\ isSaving' = FALSE
  /\ saveStatus' = IF ok THEN "success" ELSE "error"
  /\ errorMessage' = IF ok THEN errorMessage ELSE "Failed to save"
  /\ unsaved' = IF ok /\ p.doc = sequenceData THEN FALSE ELSE unsaved
  /\ UNCHANGED << sequenceData, saves, removedIds, nowMs, wsEmitted,
                  resetCalls, sequence >>
  /\ UNCHANGED editorRest

\* the 3000 ms timeout of the effect on [saveStatus]
SaveStatusTimeout ==
  /\ saveStatus # "idle"
  /\ saveStatus' = "idle"
  /\ errorMessage' = "none"
  /\ UNCHANGED << sequenceData, unsaved, isSaving, savePending, saves, removedIds, nowMs,
                  wsEmitted, resetCalls, sequence >>
  /\ UNCHANGED editorRest

\* ---- WorkspaceContainer.resetSequence ---------------------------------
MaxResets == 1          \* resetSequence calls in one run

\* what resetSequence and its callbacks leave alone
resetRest == << component, bindings, sessionId, sockets, socketRef, wsSocketRef,
               timers, reconnectTimer, connectionStatus, connectionError,
               reconnectAttempts, messages, isGenerating, histFetches, sent, regCore, nameVars, isFirstUserMessage, submits,
               seqFetches, unsaved, isSaving, saveStatus, errorMessage, savePending,
               saves, removedIds, nowMs, wsEmitted, pushes, cfgFetches, activityVars,
               sequence >>

\* resetSequence() up to the POST request; the button is rendered while
\* sequenceData is a document
resetSequence ==
  /\ component = "AppWrapper"
  /\ sequenceData.kind = "doc"
  /\ sessionId # ""
  /\ Cardinality(resetCalls) < MaxResets
  /\ resetCalls' = resetCalls \cup {[sid |-> sessionId, st |-> "pending"]}
  /\ UNCHANGED << sequenceData, wsError >>
  /\ UNCHANGED resetRest

\* callbacks that clear the document whatever the server answered
AfterResetAlways(doc, outcome) == NullDoc

\* the document after the callbacks of resetSequence: "success" is an
\* answer with success set, "failure" one without, "error" a rejected
\* request or an unparsable answer
AfterReset(doc, outcome) == IF outcome = "success" THEN NullDoc ELSE doc

\* the then / catch callbacks of resetSequence
ResetSequenceResponse(r, outcome) ==
  /\ r \in resetCalls
  /\ r.st = "pending"
  /\ resetCalls' = (resetCalls \ {r}) \cup {[sid |-> r.sid, st |-> outcome]}
  /\ sequenceData' = AfterReset(sequenceData, outcome)
  /\ wsError' = IF outcome = "success" THEN wsError ELSE TRUE
  /\ UNCHANGED resetRest

\* ======================================================================
\* Tool activity and placeholders (chat components)
\* ======================================================================
\* what the activity handlers leave alone
activityRest == << component, bindings, sessionId, sockets, socketRef, wsSocketRef,
                   timers, reconnectTimer, connectionStatus, connectionError,
                   reconnectAttempts, histFetches, sent, wsError, regCore, nameVars,
                   isFirstUserMessage, submits, sequenceData, seqFetches, unsaved,
                   editorVars, pushes, cfgFetches, submitCalls >>

\* a server event reaches the listeners of the chat component's socket i
Delivered(i) ==
  /\ i \in 1..Len(sockets)
  /\ sockets[i].owner = "chat"
  /\ sockets[i].st = "open"
  /\ events < MaxEvents
  /\ events' = events + 1

Tools == {"generate_sequence", "search"}

\* ChatContainer: { role: 'assistant', content: '', isStreaming: true }
StreamingEntry == [type |-> "assistant", text |-> "", isStreaming |-> TRUE]

\* EunoiaAI: the entry shown while generate_sequence runs
GeneratingEntry ==
  [type |-> "system", text |-> "Generating sequence...", isGenerating |-> TRUE]

\* the entry a tool_call_error appends
ToolErrorEntry ==
  [type |-> "system",
   text |-> IF component = "EunoiaAI" THEN "Sorry, error" ELSE "Error: error"]

\* 'message_received' (ChatContainer is the only listener)
MessageReceived(i) ==
  /\ Delivered(i)
  /\ component = "ChatContainer"
  /\ Len(messages) < MaxTranscript
  /\ messages' = Append(messages, StreamingEntry)
  /\ isGenerating' = TRUE
  /\ UNCHANGED << usingTool, activityRest >>

\* 'tool_call_start'
ToolCallStart(i, tool) ==
  /\ Delivered(i)
  /\ usingTool' = tool
  /\ messages' =
       CASE component = "ChatContainer" -> WithoutStreaming(messages)
         [] component = "EunoiaAI" /\ tool = "generate_sequence"
              -> Append(messages, GeneratingEntry)
         [] OTHER -> messages
  /\ Len(messages') <= MaxTranscript
  /\ UNCHANGED << isGenerating, activityRest >>

\* 'tool_call_end'
ToolCallEnd(i) ==
  /\ Delivered(i)
  /\ usingTool' = "none"
  /\ UNCHANGED << messages, isGenerating, activityRest >>

\* 'tool_call_error' (ChatContainer registers no listener for it)
ToolCallError(i) ==
  /\ Delivered(i)
  /\ IF component = "ChatContainer"
     THEN UNCHANGED << usingTool, isGenerating, messages >>
     ELSE /\ Len(messages) < MaxTranscript
          /\ usingTool' = "none"
          /\ isGenerating' = FALSE
          /\ messages' = Append(messages, ToolErrorEntry)
  /\ UNCHANGED activityRest

\* 'processing_complete' (ChatContainer is the only listener)
ProcessingComplete(i) ==
  /\ Delivered(i)
  /\ component = "ChatContainer"
  /\ isGenerating' = FALSE
  /\ messages' = WithoutStreaming(messages)
  /\ UNCHANGED << usingTool, activityRest >>

\* 'sequence_update' in EunoiaAI
PageSequenceUpdate(i) ==
  /\ Delivered(i)
  /\ component = "EunoiaAI"
  /\ messages' = WithoutGenerating(messages)
  /\ isGenerating' = FALSE
  /\ UNCHANGED << usingTool, activityRest >>

\* ---- the channel specification: bindings, reconnects, timers ------
NextChannel ==
  \/ \E s \in Sessions : SessionChange(s, FALSE, MaxChannelBindings)
  \/ \E i \in 1..Len(sockets) : SockConnect(i)
  \/ \E i \in 1..Len(sockets) : SockConnectError(i)
  \/ \E i \in 1..Len(sockets) : SockDisconnect(i)
  \/ \E i \in 1..Len(timers) : TimerFire(i)

InitChannel == Init /\ component = "AppWrapper"

SpecChannel == InitChannel /\ [][NextChannel]_vars

\* ---- AppWrapper with its child WorkspaceContainer -------------------
NextWorkspace ==
  \/ \E s \in Sessions : SessionChange(s, TRUE, MaxBindings)
  \/ \E i \in 1..Len(sockets) : SockConnect(i)
  \/ \E i \in 1..Len(sockets) : SockDisconnect(i)

SpecWorkspace == InitChannel /\ [][NextWorkspace]_vars

\* ---- the chat specification: transcript, history, sending ----------
Next ==
  \/ \E s \in Sessions : SessionChange(s, FALSE, MaxBindings)
  \/ \E i \in 1..Len(sockets) : SockConnect(i)
  \/ \E i \in 1..Len(sockets) : SockDisconnect(i)
  \/ \E i \in 1..Len(sockets), role \in {"assistant", "user"} : ChatMessage(i, role)
  \/ \E f \in histFetches, ok \in BOOLEAN : HistoryResponse(f, ok)
  \/ HandleSubmit
  \/ \E ok \in BOOLEAN : PageHandleSubmit(ok)
  \/ \E ok \in BOOLEAN : HandleSendMessage(ok)

Spec == Init /\ [][Next]_vars

\* ---- the welcome specification: transcript, history, configuration --
NextWelcome ==
  \/ \E s \in Sessions : SessionChange(s, FALSE, MaxChannelBindings)
  \/ \E i \in 1..Len(sockets) : SockConnect(i)
  \/ \E i \in 1..Len(sockets) : ChatMessage(i, "assistant")
  \/ \E f \in histFetches, ok \in BOOLEAN : HistoryResponse(f, ok)
  \/ HandleSubmit
  \/ \E f \in cfgFetches, welcome \in BOOLEAN : ConfigResponse(f, welcome)
  \/ WelcomeMessageEvent

SpecWelcome == InitChannel /\ [][NextWelcome]_vars

\* ---- the activity specification: one session, sends, server events --
NextActivity ==
  \/ SessionChange("A", FALSE, MaxEditorBindings)
  \/ \E i \in 1..Len(sockets) : SockConnect(i)
  \/ HandleSubmit
  \/ PageHandleSubmit(TRUE)
  \/ HandleSendMessage(TRUE)
  \/ \E i \in 1..Len(sockets) : ChatMessage(i, "assistant")
  \/ \E i \in 1..Len(sockets) : MessageReceived(i)
  \/ \E i \in 1..Len(sockets), tool \in Tools : ToolCallStart(i, tool)
  \/ \E i \in 1..Len(sockets) : ToolCallEnd(i)
  \/ \E i \in 1..Len(sockets) : ToolCallError(i)
  \/ \E i \in 1..Len(sockets) : ProcessingComplete(i)
  \/ \E i \in 1..Len(sockets) : PageSequenceUpdate(i)

SpecActivity == Init /\ [][NextActivity]_vars

\* ---- the handover specification: activity across session switches ---
NextHandover ==
  \/ \E s \in Sessions : SessionChange(s, FALSE, MaxChannelBindings)
  \/ \E i \in 1..Len(sockets) : SockConnect(i)
  \/ HandleSubmit
  \/ PageHandleSubmit(TRUE)
  \/ HandleSendMessage(TRUE)
  \/ \E i \in 1..Len(sockets) : ChatMessage(i, "assistant")
  \/ \E i \in 1..Len(sockets), tool \in Tools : ToolCallStart(i, tool)
  \/ \E i \in 1..Len(sockets) : ToolCallEnd(i)

SpecHandover == Init /\ [][NextHandover]_vars

\* ---- the reset specification: one session, its document, the reset ---
NextReset ==
  \/ SessionChange("A", TRUE, MaxEditorBindings)
  \/ \E i \in 1..Len(sockets) : SockConnect(i)
  \/ \E i \in 1..Len(sockets) :
       \E data \in ServerDocs(sockets[i].sid) \cup {NullDoc} : SequenceUpdate(i, data)
  \/ \E f \in seqFetches :
       \/ \E data \in ServerDocs(f.sid) : SeqFetchResponse(f, "doc", data)
       \/ \E outcome \in {"none", "fail"} : SeqFetchResponse(f, outcome, NullDoc)
  \/ resetSequence
  \/ \E r \in resetCalls, outcome \in {"success", "failure", "error"} :
       ResetSequenceResponse(r, outcome)

SpecReset == InitChannel /\ [][NextReset]_vars

\* ---- the input specification: the submit handler and its early return
NextInput ==
  \/ SessionChange("A", FALSE, MaxEditorBindings)
  \/ \E i \in 1..Len(sockets) : SockConnect(i)
  \/ \E i \in 1..Len(sockets) : SockDisconnect(i)
  \/ \E i \in 1..Len(sockets) : ChatMessage(i, "assistant")
  \/ \E text \in InputTexts : SubmitText(text)

\* the builds whose submit handler tests the text itself
InitInput == Init /\ component \in {"AppWrapper", "ChatContainer"}

SpecInput == InitInput /\ [][NextInput]_vars

\* ---- the document specification: loads, pushes, edits ---------------
NextSequence ==
  \/ \E s \in Sessions : SessionChange(s, TRUE, MaxChannelBindings)
  \/ \E i \in 1..Len(sockets) : SockConnect(i)
  \/ \E i \in 1..Len(sockets) :
       \E data \in ServerDocs(sockets[i].sid) \cup {NullDoc} : SequenceUpdate(i, data)
  \/ \E f \in seqFetches :
       \/ \E data \in ServerDocs(f.sid) : SeqFetchResponse(f, "doc", data)
       \/ \E outcome \in {"none", "fail"} : SeqFetchResponse(f, outcome, NullDoc)
  \/ \E k \in 1..Len(sequenceData.steps) :
       updateStepField(sequenceData.steps[k].id, "message", "edited")

SpecSequence == InitChannel /\ [][NextSequence]_vars

\* ---- the editor specification: one session, its document, the editor --
NextEditor ==
  \/ SessionChange("A", TRUE, MaxEditorBindings)
  \/ \E i \in 1..Len(sockets) : SockConnect(i)
  \/ \E i \in 1..Len(sockets) :
       \E data \in ServerDocs(sockets[i].sid) \cup {NullDoc} : SequenceUpdate(i, data)
  \/ \E f \in seqFetches :
       \/ \E data \in ServerDocs(f.sid) : SeqFetchResponse(f, "doc", data)
       \/ \E outcome \in {"none", "fail"} : SeqFetchResponse(f, outcome, NullDoc)
  \/ \E k \in 1..Len(sequenceData.steps), e \in FieldEdits :
       updateStepField(sequenceData.steps[k].id, e[1], e[2])
  \/ addStep
  \/ \E k \in 1..Len(sequenceData.steps) : removeStep(sequenceData.steps[k].id)
  \/ handleSaveSequence
  \/ \E p \in savePending, ok \in BOOLEAN : SaveResponse(p, ok)
  \/ SaveStatusTimeout

SpecEditor == InitChannel /\ [][NextEditor]_vars

\* ---- the earlier SequenceEditor: its copy of the document ------------

MaxRawSteps == 2        \* longest step list handed to the earlier editor

StepFields == {"id", "step", "day", "channel", "timing"}

\* the day a step of the incoming document may carry
PresentDays == {0, 5}

\* a step of the incoming document carrying the fields in has; a field it
\* lacks reads as undefined, shown here by the empty value of its type
RawStep(has, day) ==
  [has     |-> has,
   id      |-> IF "id" \in has THEN "s" ELSE "",
   step    |-> IF "step" \in has THEN 9 ELSE 0,
   day     |-> IF "day" \in has THEN day ELSE 0,
   channel |-> IF "channel" \in has THEN "LinkedIn" ELSE "",
   timing  |-> IF "timing" \in has THEN "Morning" ELSE ""]

RawSteps == { RawStep(has, day) : has \in SUBSET StepFields, day \in PresentDays }

RECURSIVE RawLists(_)
RawLists(n) ==
  IF n = 0 THEN { << >> }
  ELSE RawLists(n - 1)
         \cup { Append(l, st) : l \in { x \in RawLists(n - 1) : Len(x) = n - 1 },
                                st \in RawSteps }

\* the sequenceData prop: null, an object without a steps array, a document
RawProps ==
  {NullDoc, NoStepsDoc("A")} \cup { Doc("A", steps) : steps \in RawLists(MaxRawSteps) }

\* one step of the map in the effect, index counted from 0
normalizeStep(step, index) ==
  [has     |-> StepFields,
   id      |-> IF step.id # "" THEN step.id ELSE "step_" \o ToString(index + 1),
   step    |-> IF step.step # 0 THEN step.step ELSE index + 1,
   day     |-> IF step.day # 0 THEN step.day ELSE index * 3,
   channel |-> IF step.channel # "" THEN step.channel ELSE "Email",
   timing  |-> IF step.timing # "" THEN step.timing
               ELSE "Day " \o ToString(index * 3)]

normalizeSteps(validSteps) ==
  [k \in 1..Len(validSteps) |-> normalizeStep(validSteps[k], k - 1)]

\* the effect on [sequenceData] of the earlier SequenceEditor
NormalizeEffect ==
  /\ sequence' = IF sequenceData.kind = "null" THEN << >>
                 ELSE normalizeSteps(IF sequenceData.kind = "doc"
                                     THEN sequenceData.steps ELSE << >>)
  /\ UNCHANGED << sequenceData, unsaved, isSaving, saveStatus, errorMessage,
                  savePending, saves, removedIds, nowMs, wsEmitted, resetCalls >>
  /\ UNCHANGED editorRest

NextNormalize == NormalizeEffect

InitNormalize ==
  /\ \E data \in RawProps : ChannelInitGiven(data)
  /\ RegistryIdle
  /\ component = "EunoiaAI"

SpecNormalize == InitNormalize /\ [][NextNormalize]_vars

\* ---- AppWrapper under the AgentProvider: session names ---------------
\* the effects on [sessionId] have run for the session the context holds
Settled == sessionId = "" \/ (socketRef # 0 /\ sockets[socketRef].sid = sessionId)

\* AppWrapper's effects on [sessionId], run in the commit that follows a
\* change of the provider's sessionId
EffectRun ==
  /\ ~Settled
  /\ SessionEffect(sessionId, FALSE, MaxBindings)
  /\ UNCHANGED << sessionId, regCore, nameVars >>

\* a first visit: no cache, no stored session id
InitRename ==
  /\ InitRegistry
  /\ component = "AppWrapper"
  /\ ~lsSessions.present
  /\ lsSessionId = ""

NextRename ==
  \/ EffectRun
  \/ Settled /\ \E o \in BootOutcomes, server \in ServerChoices : BootResponse(o, server)
  \/ Settled /\ CreateNewSession
  \/ Settled /\ \E c \in resetChains, ok \in BOOLEAN : ResetResponse(c, ok)
  \/ Settled /\ \E sid \in Ids(sessions) : SwitchSession(sid)
  \/ Settled /\ \E r \in renamePending, ok \in BOOLEAN : RenameResponse(r, ok)
  \/ Settled /\ HandleSubmit
  \/ Settled /\ \E i \in 1..Len(sockets) : SockConnect(i)
  \/ Settled /\ \E i \in 1..Len(sockets) : ChatMessage(i, "assistant")
  \/ Tick

SpecRename == InitRename /\ [][NextRename]_vars

\* ======================================================================
\* Claims
\* ======================================================================

\* C1: if the active session is switched from A to B while the history
\* fetch for A is pending, the later completion of A's fetch leaves the
\* transcript shown for B unchanged.
C1_StaleHistoryDiscarded ==
  [][\A f \in histFetches : \A ok \in BOOLEAN :
       (f.sid # sessionId /\ HistoryResponse(f, ok)) => messages' = messages]_vars

\* C2: no accepted user message is both emitted on the realtime channel
\* and posted through the fallback request.
C2_SingleDeliveryPath ==
  \A k \in 1..Len(sent) : ~(sent[k].emit /\ sent[k].post)

\* C3: a user message accepted while the realtime channel is not connected
\* is delivered through the fallback request (never only written to the
\* unconnected channel, never dropped).
C3_FallbackWhenNotConnected ==
  \A k \in 1..Len(sent) : ~sent[k].conn => sent[k].post

\* C4: after a session switch every socket of a previous binding is
\* disconnected and no reconnect timer of a previous binding is pending, so
\* nothing of the previous binding can reconnect or fire.
C4_PreviousBindingTornDown ==
  \A i \in 1..Len(sockets) :
     i # socketRef => sockets[i].st = "closed" /\ timers[i] = 0

\* the live connections joined to the room of session sid
LiveJoined(sid) ==
  {i \in 1..Len(sockets) : sockets[i].st = "open" /\ sockets[i].sid = sid}

\* C5: the chat component's live connection is the only live connection
\* joined to the active session's room; no other component holds a second one.
C5_SingleLiveConnection ==
  Connected(socketRef) => LiveJoined(sessionId) = {socketRef}

\* C6: the reconnect-attempt counter never exceeds the ceiling of five, and
\* once it has reached five the state is Error with the terminal message and
\* no further automatic connection attempt is under way.
C6_AttemptCeiling ==
  /\ reconnectAttempts <= maxReconnectAttempts
  /\ reconnectAttempts >= maxReconnectAttempts =>
       /\ connectionStatus = "error"
       /\ connectionError = "terminal"
       /\ \A i \in 1..Len(sockets) : sockets[i].st # "opening"

\* C7: when bootstrap completes, whatever the list request returned, the
\* active session is the stored active id if that id is in the merged list,
\* otherwise a newly created session that is a member of the session list.
\* The merged list is the reconciled list when the server list arrived and
\* the local cache when it did not.
C7_BootstrapActive ==
  [][(boot = "fetching" /\ boot' = "done" /\ ~EarlierProvider) =>
       LET merged == IF bootOutcome' = "ok" THEN finalSessions'
                     ELSE LocalData(storedSessions)
       IN IF storedSessionId # "" /\ storedSessionId \in Ids(merged)
          THEN sessionId' = storedSessionId
          ELSE /\ sessionId' = NewSession(nextId).id
               /\ sessionId' \in Ids(sessions')]_vars

Range(list) == {list[k] : k \in 1..Len(list)}

\* C8: after a successful list request the merged list holds exactly the
\* server sessions whose id is in the local cache when a cache exists, and
\* equals the server list when there is none, in either provider.
C8_Reconciliation ==
  (boot = "done" /\ bootOutcome = "ok") =>
     IF storedSessions.present
     THEN /\ Range(finalSessions) =
               {x \in Range(serverSessionsData) : x.id \in Ids(storedSessions.list)}
          /\ Len(finalSessions) = Cardinality(Range(finalSessions))
     ELSE finalSessions = serverSessionsData

\* C9: a session on which deleteSession has completed, with or without the
\* server's consent, is not in the session list, now or later in the run.
C9_DeletedStaysDeleted ==
  \A d \in deleted : d.sid \notin Ids(sessions)

\* a delete whose server call failed, with other sessions still listed
C9_Witness ==
  \E d \in deleted : ~d.ok /\ d.sid \notin Ids(sessions) /\ sessions # << >>

\* the ids of the most recently created sessions of a list
MostRecent(list) ==
  {list[k].id : k \in {j \in 1..Len(list) :
                         \A i \in 1..Len(list) : list[j].created_at >= list[i].created_at}}

\* C10: when deleteSession removes the active session, the active session
\* afterwards is the most recently created of the remaining sessions, or a
\* newly created one if none remain.
C10_ActiveAfterDelete ==
  [][\A d \in delPending : \A ok \in BOOLEAN :
       (DeleteResponse(d, ok) /\ d.sid = sessionId) =>
          LET rem == RemoveSession(sessions, d.sid)
          IN IF Len(rem) > 0
             THEN sessionId' \in MostRecent(rem)
             ELSE /\ sessionId' = NewSession(nextId).id
                  /\ sessionId' \in Ids(sessions')]_vars

\* C11: while a delete is in flight, a further deleteSession call issues no
\* DELETE request: the set of requests in flight only shrinks until the
\* response has been handled.
C11_SecondDeleteSuppressed ==
  [][delPending # {} => (isDeletingSession /\ delPending' \subseteq delPending)]_vars

\* a delete is in flight while the sidebar still lists another session
C11_Witness ==
  /\ delPending # {}
  /\ \E x \in Ids(sessions) : \A d \in delPending : d.sid # x

\* the ids createNewSession and createNewSessionInternal hand out
CreatedIds == {NewSession(n).id : n \in 0..MaxCreated}

\* C12: of the messages sent in a freshly created session, the first one
\* triggers the automatic rename, with a name derived from its text, and no
\* later one does, also after switching away and back.
C12_AutoRenameOnce ==
  \A k \in 1..Len(submits) :
    submits[k].sid \in CreatedIds =>
      (submits[k].renamed <=> \A j \in 1..(k - 1) : submits[j].sid # submits[k].sid)

\* every document the server may hold, for any session
AllServerDocs == UNION {ServerDocs(sid) : sid \in Sessions}

\* a structurally valid document: a steps list whose steps all carry a
\* non-empty message and a non-empty channel
ValidDocument(data) ==
  /\ data.kind = "doc"
  /\ \A k \in 1..Len(data.steps) :
       data.steps[k].message # "" /\ data.steps[k].channel # ""

\* C13: an inbound document that is not structurally valid, whether pushed
\* or loaded, leaves the store's document exactly as it was.
C13_InvalidRejectedWhole ==
  [][\A data \in AllServerDocs :
       ~ValidDocument(data) =>
         /\ \A i \in 1..Len(sockets) :
              SequenceUpdate(i, data) => sequenceData' = sequenceData
         /\ \A f \in seqFetches :
              SeqFetchResponse(f, "doc", data) => sequenceData' = sequenceData]_vars

\* a document with the ids of its steps blanked, to compare two documents
\* up to the ids the client gives to steps that arrive without one
WithoutIds(data) ==
  [data EXCEPT !.steps = [k \in 1..Len(data.steps) |->
                            [data.steps[k] EXCEPT !.id = ""]]]

\* C14: a structurally valid document pushed while the local document
\* carries unsaved edits becomes the local document in full (up to ids
\* given to steps that arrive without one).
C14_PushReplacesWhole ==
  [][\A data \in AllServerDocs : \A i \in 1..Len(sockets) :
       (unsaved /\ ValidDocument(data) /\ SequenceUpdate(i, data))
          => WithoutIds(sequenceData') = WithoutIds(data)]_vars

\* step numbers are 1..Len(steps) in list order
Dense(data) == \A k \in 1..Len(data.steps) : data.steps[k].step = k

\* C15: after addStep and after removeStep the step numbers of the
\* document are exactly 1..Len(steps) in list order.
C15_StepNumbersDense ==
  [][(addStep \/ \E k \in 1..Len(sequenceData.steps) :
                   removeStep(sequenceData.steps[k].id))
       => Dense(sequenceData')]_vars

\* the ids the client hands out: `step-${index}` and `step-${Date.now()}`
ClientIds ==
  {"step-" \o ToString(k) : k \in 0..MaxSteps}
    \cup {StepIdAt(ms) : ms \in 0..(MaxEdits + 1)}

\* C16: the ids of a document are pairwise different, and no id handed out
\* by the client is one that was removed from the document earlier.
C16_StepIdsFresh ==
  /\ \A j, k \in 1..Len(sequenceData.steps) :
       j # k => sequenceData.steps[j].id # sequenceData.steps[k].id
  /\ \A k \in 1..Len(sequenceData.steps) :
       sequenceData.steps[k].id \in ClientIds
         => sequenceData.steps[k].id \notin removedIds

\* some step has an empty message, no channel, or is an Email step with an
\* empty subject
StepFieldMissing(data) ==
  \E k \in 1..Len(data.steps) :
    \/ data.steps[k].message = ""
    \/ data.steps[k].channel = ""
    \/ data.steps[k].channel = "Email" /\ data.steps[k].subject = ""

\* the save either is refused with an error naming a field and transmits
\* nothing, or transmits the whole document
SaveRefused ==
  /\ saves' = saves /\ savePending' = savePending
  /\ saveStatus' = "error"
  /\ errorMessage' \in {"All steps must have a message",
                        "All steps must have a channel selected",
                        "Email steps must have a subject line"}

SaveTransmitted ==
  /\ saves' = saves + 1
  /\ savePending' = savePending \cup {[sid |-> sessionId, doc |-> sequenceData]}

C19_StaleSequenceDiscarded ==
  [][\A f \in seqFetches : \A outcome \in {"doc", "none", "fail"} :
       \A data \in AllServerDocs :
         (f.sid # sessionId /\ SeqFetchResponse(f, outcome, data))
            => sequenceData' = sequenceData]_vars

\* C20: a switch of the session leaves neither the transcript nor the
\* sequence document of the previous session in place.
C20_ClearedOnSwitch ==
  [][\A s \in Sessions :
       SessionChange(s, TRUE, MaxChannelBindings)
         => (messages' = << >> /\ sequenceData'.kind = "null")]_vars

\* C21: once an assistant reply, a tool error or a processing-complete
\* event has been handled, no entry of the transcript is flagged as
\* streaming or generating and the generating flag is false.
C21_NoDanglingPlaceholder ==
  [][\A i \in 1..Len(sockets) :
       (ChatMessage(i, "assistant") \/ ToolCallError(i) \/ ProcessingComplete(i))
         => /\ ~isGenerating'
            /\ \A k \in 1..Len(messages') :
                 ~Flagged(messages'[k], "isStreaming")
                   /\ ~Flagged(messages'[k], "isGenerating")]_vars

\* C22: a tool-start event sets the indicator to the tool's name, a
\* tool-end or tool-error event sets it to null, and a tool-error event
\* appends one entry to the transcript and clears the generating flag.
C22_ToolIndicator ==
  [][\A i \in 1..Len(sockets) :
       /\ \A tool \in Tools : ToolCallStart(i, tool) => usingTool' = tool
       /\ ToolCallEnd(i) => usingTool' = "none"
       /\ ToolCallError(i)
            => /\ usingTool' = "none"
               /\ ~isGenerating'
               /\ Len(messages') = Len(messages) + 1
               /\ messages' = Append(messages, messages'[Len(messages')])]_vars

\* C23: when the server update of a rename fails, the session (if it is
\* still listed) carries the new name in the session list and in the
\* persisted copy of the list.
C23_RenameKeptOnFailure ==
  [][\A r \in renamePending :
       RenameResponse(r, FALSE)
         => /\ \A k \in 1..Len(sessions') :
                 sessions'[k].id = r.sid => sessions'[k].name = r.name
            /\ lsSessions'.present
            /\ \A k \in 1..Len(lsSessions'.list) :
                 lsSessions'.list[k].id = r.sid => lsSessions'.list[k].name = r.name]_vars

\* a rename whose server update failed has completed and the session is
\* listed, and persisted, under the new name
C23_Witness ==
  \E r \in renamed :
    /\ ~r.ok
    /\ \E k \in 1..Len(sessions) :
         sessions[k].id = r.sid /\ sessions[k].name = r.name
    /\ \E k \in 1..Len(lsSessions.list) :
         lsSessions.list[k].id = r.sid /\ lsSessions.list[k].name = r.name

\* C24: createNewSession puts the new session into the list and its
\* persisted copy and makes it active in the call itself, and a failed
\* POST /api/sessions changes neither the list nor the active session.
C24_CreateIsOptimistic ==
  [][/\ CreateNewSession
          => /\ sessionId' = NewSession(nextId).id
             /\ lsSessionId' = NewSession(nextId).id
             /\ NewSession(nextId).id \in Ids(sessions')
             /\ NewSession(nextId).id \in Ids(lsSessions'.list)
     /\ \A c \in createCalls :
          CreateResponse(c, FALSE)
            => /\ sessions' = sessions
               /\ lsSessions' = lsSessions
               /\ sessionId' = sessionId]_vars

\* the POST of a creation has failed and the created session is listed
\* and active
C24_Witness ==
  \E c \in createCalls :
    c.st = "failed" /\ c.sid \in Ids(sessions) /\ sessionId = c.sid

\* C25: after bootstrap, switchSession(id) for an id that is not in the
\* session list changes neither the active session nor the persisted
\* active-session id
C25_SwitchUnknownIgnored ==
  [][\A sid \in SwitchTargets :
       (boot = "done" /\ SwitchSession(sid) /\ sid \notin Ids(sessions))
         => /\ sessionId' = sessionId
            /\ lsSessionId' = lsSessionId]_vars

\* C26: when a save has succeeded while the socket of WorkspaceContainer
\* is connected, the saved document has been emitted on it as a
\* sequence_edit for the session, and the save status is "success"
C26_SaveBroadcast ==
  [][\A p \in savePending :
       (SaveResponse(p, TRUE) /\ Connected(wsSocketRef))
         => /\ saveStatus' = "success"
            /\ wsEmitted' = wsEmitted \cup
                 {[ev |-> "sequence_edit", sid |-> p.sid]}]_vars

\* C27: once initializeSession has finished, the active session id is the
\* id of a session in the session list
C27_ActiveIsListed ==
  (boot = "done" /\ ~EarlierProvider) => sessionId \in Ids(sessions)

\* C28: the completion of deleteSession(sid) takes only the session sid
\* out of the list: every other entry the list holds when the response
\* arrives, a session created or renamed meanwhile included, is still in
\* the list afterwards
C28_DeleteRemovesOnlyTarget ==
  [][\A d \in delPending, ok \in BOOLEAN :
       DeleteResponse(d, ok)
         => \A x \in Range(sessions) : x.id # d.sid => x \in Range(sessions')]_vars

\* C29: when the reset chain of a new session ends (the reset succeeded, or
\* the last attempt failed) while another session is the active one, the
\* active session stays what it is
C29_ResetKeepsActive ==
  [][\A c \in resetChains, ok \in BOOLEAN :
       (ResetResponse(c, ok) /\ sessionId # c.sid) => sessionId' = sessionId]_vars

\* C30: handling the answer of a configuration fetch or a welcome_message
\* event leaves a transcript that has entries as it is
C30_WelcomeOnlyIntoEmpty ==
  [][(\/ \E f \in cfgFetches, welcome \in BOOLEAN : ConfigResponse(f, welcome)
      \/ WelcomeMessageEvent)
       => (messages # << >> => messages' = messages)]_vars

\* C31: after a switch from one session to another the tool indicator is
\* null and the generating flag is false
C31_ActivityClearedOnSwitch ==
  [][\A s \in Sessions :
       (sessionId # "" /\ SessionChange(s, FALSE, MaxChannelBindings))
         => (usingTool' = "none" /\ ~isGenerating')]_vars

\* C32: a user message that is in the transcript of the active session
\* when the history fetch of that session's binding completes is still in
\* the transcript afterwards
C32_UserMessageSurvivesHistory ==
  [][\A f \in histFetches, ok \in BOOLEAN :
       (HistoryResponse(f, ok) /\ f.sid = sessionId /\ f.id = socketRef)
         => (UserEntry \in Range(messages) => UserEntry \in Range(messages'))]_vars

\* C33: whenever no registry operation is in flight after bootstrap, the
\* persisted session list equals the session list and the persisted
\* active id equals the active session id
C33_StorageInSync ==
  (/\ boot = "done"
   /\ ~EarlierProvider
   /\ delPending = {}
   /\ renamePending = {}
   /\ resetChains = {})
    => (lsSessions = Stored(sessions) /\ lsSessionId = sessionId)

\* C34: renameSession(sid, name) with a non-blank name puts the new name
\* into the session list at the call, before the server has answered
C34_RenameIsOptimistic ==
  [][\A sid \in Ids(sessions) :
       RenameSession(sid, UserName) => NameOf(sessions', sid, "") = UserName]_vars

\* C35: resetSequence leaves the document as it is at the request; the
\* answer sets it to null when the server confirmed success, and leaves it
\* unchanged when the server reported failure or the request failed
C35_ResetClearsOnSuccessOnly ==
  [][/\ resetSequence => sequenceData' = sequenceData
     /\ \A r \in resetCalls, outcome \in {"success", "failure", "error"} :
          ResetSequenceResponse(r, outcome)
            => sequenceData' = IF outcome = "success" THEN NullDoc ELSE sequenceData]_vars
C35_Witness ==
  /\ \E r \in resetCalls : r.st \in {"failure", "error"}
  /\ sequenceData.kind = "doc"

\* C36: when the history fetch of the active session's binding succeeds
\* the transcript becomes the fetched user and assistant messages in their
\* order, also when there are none; when it fails the transcript stays
C36_HistoryReplacesTranscript ==
  [][\A f \in histFetches, ok \in BOOLEAN :
       (HistoryResponse(f, ok) /\ f.sid = sessionId /\ f.id = socketRef)
         => messages' = IF ok THEN UiMessages(ApiMessages(f.sid)) ELSE messages]_vars

\* C37: a call of the submit handler with an empty or whitespace-only text,
\* or while the generating flag is set, appends nothing to the transcript,
\* transmits nothing and leaves the flags as they are
C37_BlankOrPendingIsNoOp ==
  [][\A text \in InputTexts :
       (SubmitText(text) /\ (Trim(text) = << >> \/ isGenerating))
         => UNCHANGED << messages, sent, isGenerating, isFirstUserMessage, submits,
                         renamePending, isRenamingSession >>]_vars
C37_Witness ==
  /\ submitCalls > Len(sent)
  /\ Connected(socketRef)
  /\ sessionId # ""

\* C38: the automatic name is the message cut to its first 30 characters,
\* followed by an ellipsis exactly when the message was longer than that
C38_AutoNameTruncation ==
  [][\A message \in NameTexts :
       GenerateSessionName(message)
         => \E r \in renamePending' :
              r.name = IF Len(message) > NameLimit
                       THEN SubSeq(message, 1, NameLimit) \o << ".", ".", "." >>
                       ELSE message]_vars


\* C39: addStep appends exactly one step at the end of the list, numbered
\* len(steps) + 1, on channel Email, with the placeholder message, on the day
\* of the previous last step plus 3, or on day 0 when the document had no
\* steps; the existing steps are unchanged.
C39_AddStepAppends ==
  [][addStep =>
       LET n == Len(sequenceData.steps)
           added == sequenceData'.steps[n + 1]
       IN /\ Len(sequenceData'.steps) = n + 1
          /\ SubSeq(sequenceData'.steps, 1, n) = sequenceData.steps
          /\ added.step = n + 1
          /\ added.channel = "Email"
          /\ added.message = "Enter your message here..."
          /\ added.day = IF n > 0 THEN sequenceData.steps[n].day + 3 ELSE 0]_vars


\* C40: normalization on load assigns defaults only to missing fields: the
\* step at 0-based position i gets id step_<i+1>, step number i + 1, day
\* 3 * i, channel Email and a timing label of its day where it lacks the
\* field, every field that is present (day = 0 included) keeps its value,
\* and normalizing the normalized list once more changes nothing.
C40_NormalizeOnlyMissing ==
  [][(NormalizeEffect /\ sequenceData.kind = "doc") =>
       /\ Len(sequence') = Len(sequenceData.steps)
       /\ \A k \in 1..Len(sequenceData.steps) :
            LET raw == sequenceData.steps[k]
                out == sequence'[k]
                i == k - 1
            IN /\ out.id = IF "id" \in raw.has THEN raw.id
                           ELSE "step_" \o ToString(i + 1)
               /\ out.step = IF "step" \in raw.has THEN raw.step ELSE i + 1
               /\ out.day = IF "day" \in raw.has THEN raw.day ELSE 3 * i
               /\ out.channel = IF "channel" \in raw.has THEN raw.channel ELSE "Email"
               /\ out.timing = IF "timing" \in raw.has THEN raw.timing
                               ELSE "Day " \o ToString(out.day)
       /\ normalizeSteps(sequence') = sequence']_vars

====
